---- MODULE Spec2Model ----
(***************************************************************************)
(* Facility booking back end: the reservation store, the facility catalog  *)
(* and the check-in request store, with one action per REST handler that   *)
(* changes them (server/src/routes/bookings.js, qr-scanner.js,             *)
(* check-in-requests.js, facilities.js).                                   *)
(*                                                                         *)
(* Time is counted in units of 30 minutes, so the scanner's 30 minute      *)
(* window is one unit.                                                     *)
(***************************************************************************)
EXTENDS Integers, Sequences, FiniteSets, TLC

\* ------------------------------------------------------------------ bounds
MaxBookings == 2
MaxTime == 2
MaxAudit == 4
MaxCheckInRequests == 1
MaxRaceRequests == 2
MaxFeedbacks == 2

\* -------------------------------------------------------- program constants
\* 30 * 60 * 1000 ms before startTime and after endTime, in 30 minute units
CheckInWindow == 1
\* the length of one unit of time, in minutes
SlotMinutes == 30
\* FacilitySchema defaults of minBookingMinutes and maxBookingMinutes
DefaultMinBookingMinutes == 30
DefaultMaxBookingMinutes == 480

\* ------------------------------------------------------------------ domains
Facilities == {"f1", "f2"}
\* an id that names no facility document
UnknownFacility == "fx"
FacilityTypes == {"LAB", "HALL"}
Users == {"u1", "u2"}
Admin == "admin"
Times == 0..MaxTime
\* a request field that is absent from the body
Missing == 0 - 1
\* instants at which a scan or an approval may happen
Clock == (0 - CheckInWindow - 1)..(MaxTime + CheckInWindow + 1)
NoBooking == [status |-> "NONE"]
BookingIds == 1..MaxBookings

BookingStatuses ==
    {"PENDING", "PENDING_ADMIN", "APPROVED", "REJECTED", "CANCELLED",
     "CHECKED_IN", "CHECKED_OUT", "EXPIRED"}

VARIABLES
    catalog,          \* the Facility collection
    bookings,         \* the Booking collection, by id
    nextBookingId,    \* the id the next inserted booking gets
    checkInRequests,  \* the CheckInRequest collection, in insertion order
    last,             \* the answer of the handler that ran last
    procs,            \* the handlers in flight
    systemSettings,   \* the SystemSettings document
    feedbacks         \* the Feedback collection, in insertion order

vars == <<catalog, bookings, nextBookingId, checkInRequests, last, procs,
          systemSettings, feedbacks>>

\* ----------------------------------------------------------------- helpers
Range(s) == {s[i] : i \in DOMAIN s}

\* the ids of the stored (not deleted) reservations
Stored(bks) == {i \in BookingIds : bks[i] # NoBooking}

\* Facility.find({ _id: { $in: facilityIds }, active: true })
FindActiveFacilities(cat, facilityIds) ==
    {f \in Facilities : f \in Range(facilityIds) /\ cat[f].active}

\* mutant: a cancelled booking keeps blocking its window
NonBlockingStatusesNoCancelled == {"REJECTED", "EXPIRED"}

\* status: { $nin: ['REJECTED', 'CANCELLED', 'EXPIRED'] }
NonBlockingStatuses == {"REJECTED", "CANCELLED", "EXPIRED"}

\* mutant: $lte and $gte, so that windows that only touch are in conflict
TimeFilterClosed(b, startTime, endTime) ==
    b.startTime <= endTime /\ b.endTime >= startTime

\* { startTime: { $lt: new Date(endTime) }, endTime: { $gt: new Date(startTime) } }
TimeFilter(b, startTime, endTime) ==
    b.startTime < endTime /\ b.endTime > startTime

\* Booking.find({ facilities: { $in: ids }, status: { $nin: [...] }, $or: [...] })
OverlappingBookings(bks, ids, startTime, endTime) ==
    {i \in Stored(bks) :
        /\ Range(bks[i].facilities) \cap ids # {}
        /\ bks[i].status \notin NonBlockingStatuses
        /\ TimeFilter(bks[i], startTime, endTime)}

\* Facility.find({ type, active: true, maintenanceMode: false })
FacilitiesOfType(cat, type) ==
    {f \in Facilities :
        cat[f].type = type /\ cat[f].active /\ ~cat[f].maintenanceMode}

\* bookedSet: the facilities of the pool named by an overlapping booking
BookedSet(bks, pool, startTime, endTime) ==
    {f \in pool :
        \E i \in OverlappingBookings(bks, pool, startTime, endTime) :
            f \in Range(bks[i].facilities)}

\* mutant: bookedSet.size > facilityIdsOfType.length
TypeSaturatedStrict(cat, bks, facilities, startTime, endTime) ==
    \E type \in {cat[f].type : f \in facilities} :
        LET pool == FacilitiesOfType(cat, type)
        IN  /\ pool # {}
            /\ Cardinality(BookedSet(bks, pool, startTime, endTime))
                   > Cardinality(pool)

\* mutant: the requested facilities count as booked already
TypeSaturatedAfterBooking(cat, bks, facilities, startTime, endTime) ==
    \E type \in {cat[f].type : f \in facilities} :
        LET pool == FacilitiesOfType(cat, type)
        IN  /\ pool # {}
            /\ Cardinality(BookedSet(bks, pool, startTime, endTime)
                           \cup (facilities \cap pool))
                   >= Cardinality(pool)

\* mutant: one booked facility of the type is enough
TypeSaturatedAnyBooked(cat, bks, facilities, startTime, endTime) ==
    \E type \in {cat[f].type : f \in facilities} :
        LET pool == FacilitiesOfType(cat, type)
        IN  /\ pool # {}
            /\ BookedSet(bks, pool, startTime, endTime) # {}

\* the loop over the types of the selected facilities
TypeSaturated(cat, bks, facilities, startTime, endTime) ==
    \E type \in {cat[f].type : f \in facilities} :
        LET pool == FacilitiesOfType(cat, type)
        IN  /\ pool # {}
            /\ Cardinality(BookedSet(bks, pool, startTime, endTime))
                   >= Cardinality(pool)

\* mutant: hasRestrictedFacility is left out
RequiresAdminApprovalNoRestricted(cat, bks, facilities, req) ==
    \/ req.isExternal
    \/ TypeSaturated(cat, bks, facilities, req.startTime, req.endTime)

\* requiresAdminApproval after the capacity check
RequiresAdminApproval(cat, bks, facilities, req) ==
    \/ \E f \in facilities : cat[f].isRestricted
    \/ req.isExternal
    \/ TypeSaturated(cat, bks, facilities, req.startTime, req.endTime)

\* mutant: the request passes when some of its facilities are found
CreateDecisionSomeFound(cat, bks, req) ==
    LET facilities == FindActiveFacilities(cat, req.facilityIds)
    IN  IF ~req.hasFacilityIds \/ req.startTime = Missing \/ req.endTime = Missing
        THEN "BAD_REQUEST"
        ELSE IF facilities = {}
        THEN "NOT_FOUND"
        ELSE IF OverlappingBookings(bks, Range(req.facilityIds),
                                    req.startTime, req.endTime) # {}
        THEN "CONFLICT"
        ELSE IF RequiresAdminApproval(cat, bks, facilities, req)
        THEN "PENDING_ADMIN"
        ELSE "APPROVED"

\* the response of POST /api/bookings, before anything is stored
CreateDecision(cat, bks, req) ==
    LET facilities == FindActiveFacilities(cat, req.facilityIds)
    IN  IF ~req.hasFacilityIds \/ req.startTime = Missing \/ req.endTime = Missing
        THEN "BAD_REQUEST"
        ELSE IF Cardinality(facilities) # Len(req.facilityIds)
        THEN "NOT_FOUND"
        ELSE IF OverlappingBookings(bks, Range(req.facilityIds),
                                    req.startTime, req.endTime) # {}
        THEN "CONFLICT"
        ELSE IF RequiresAdminApproval(cat, bks, facilities, req)
        THEN "PENDING_ADMIN"
        ELSE "APPROVED"

\* mutant: isExternal is not copied from the request
NewBookingInternal(u, req, status) ==
    [userId |-> u,
     facilities |-> req.facilityIds,
     startTime |-> req.startTime,
     endTime |-> req.endTime,
     status |-> status,
     isExternal |-> FALSE,
     approvalType |-> IF status = "APPROVED" THEN "AUTO" ELSE "NONE",
     checkInAt |-> Missing,
     checkOutAt |-> Missing,
     audit |-> <<"BOOKING_CREATED">>]

\* mutant: approval = { type: 'AUTO' } is set on every new booking
NewBookingAlwaysAuto(u, req, status) ==
    [userId |-> u,
     facilities |-> req.facilityIds,
     startTime |-> req.startTime,
     endTime |-> req.endTime,
     status |-> status,
     isExternal |-> req.isExternal,
     approvalType |-> "AUTO",
     checkInAt |-> Missing,
     checkOutAt |-> Missing,
     audit |-> <<"BOOKING_CREATED">>]

\* mutant: a booking that is not auto-approved keeps the schema's default status
NewBookingDefaultStatus(u, req, status) ==
    [userId |-> u,
     facilities |-> req.facilityIds,
     startTime |-> req.startTime,
     endTime |-> req.endTime,
     status |-> IF status = "APPROVED" THEN status ELSE "PENDING",
     isExternal |-> req.isExternal,
     approvalType |-> IF status = "APPROVED" THEN "AUTO" ELSE "NONE",
     checkInAt |-> Missing,
     checkOutAt |-> Missing,
     audit |-> <<"BOOKING_CREATED">>]

\* new Booking({...}); approval = { type: 'AUTO' } when auto-approved;
\* audit.push({ action: 'BOOKING_CREATED' })
NewBooking(u, req, status) ==
    [userId |-> u,
     facilities |-> req.facilityIds,
     startTime |-> req.startTime,
     endTime |-> req.endTime,
     status |-> status,
     isExternal |-> req.isExternal,
     approvalType |-> IF status = "APPROVED" THEN "AUTO" ELSE "NONE",
     checkInAt |-> Missing,
     checkOutAt |-> Missing,
     audit |-> <<"BOOKING_CREATED">>]

\* ------------------------------------------------------------------ inputs
FacilityIdLists ==
    {<<>>, <<"f1">>, <<"f2">>, <<"f1", "f2">>, <<"f1", "f1">>,
     <<UnknownFacility>>, <<"f1", UnknownFacility>>}

Requests ==
    [hasFacilityIds : {TRUE}, facilityIds : FacilityIdLists,
     startTime : Times, endTime : Times, isExternal : BOOLEAN]
    \cup
    [hasFacilityIds : {FALSE}, facilityIds : {<<>>},
     startTime : {0}, endTime : {1}, isExternal : {FALSE}]
    \cup
    [hasFacilityIds : {TRUE}, facilityIds : {<<"f1">>},
     startTime : {Missing}, endTime : {1}, isExternal : {FALSE}]
    \cup
    [hasFacilityIds : {TRUE}, facilityIds : {<<"f1">>},
     startTime : {0}, endTime : {Missing}, isExternal : {FALSE}]

NoRequest ==
    [hasFacilityIds |-> FALSE, facilityIds |-> <<>>,
     startTime |-> Missing, endTime |-> Missing, isExternal |-> FALSE]

\* what the last handler answered
Answer(op, result, id, req) ==
    [op |-> op, result |-> result, id |-> id, req |-> req]

\* ------------------------------------------------------------------- state
InitCatalog ==
    [f \in Facilities |->
        [type |-> "LAB", active |-> TRUE, maintenanceMode |-> FALSE,
         isRestricted |-> FALSE,
         minBookingMinutes |-> DefaultMinBookingMinutes,
         maxBookingMinutes |-> DefaultMaxBookingMinutes]]

\* new SystemSettings(): autoApprovalEnabled defaults to true
DefaultSettings == [autoApprovalEnabled |-> TRUE]

\* the handlers in flight: none outside the concurrent specifications
Procs == {"p1", "p2"}
IdleProc ==
    [pc |-> "idle", userId |-> "u1", req |-> NoRequest, facilities |-> {},
     requiresAdminApproval |-> FALSE, result |-> "NONE", id |-> 0]

Init ==
    /\ catalog = InitCatalog
    /\ bookings = [i \in BookingIds |-> NoBooking]
    /\ nextBookingId = 1
    /\ checkInRequests = <<>>
    /\ last = Answer("none", "NONE", 0, NoRequest)
    /\ procs = [p \in Procs |-> IdleProc]
    /\ systemSettings = DefaultSettings
    /\ feedbacks = <<>>

\* ---------------------------------------------------------------- bookings
\* mutant: the booking is saved before the conflict query is answered
CreateBookingSaveFirst(u, req) ==
    LET decision == CreateDecision(catalog, bookings, req)
    IN  IF decision \in {"BAD_REQUEST", "NOT_FOUND"}
        THEN /\ last' = Answer("create", decision, 0, req)
             /\ UNCHANGED <<systemSettings, feedbacks, catalog, bookings, nextBookingId, checkInRequests, procs>>
        ELSE /\ nextBookingId <= MaxBookings
             /\ bookings' = [bookings EXCEPT ![nextBookingId] =
                    NewBooking(u, req, IF decision = "CONFLICT"
                                       THEN "PENDING_ADMIN" ELSE decision)]
             /\ nextBookingId' = nextBookingId + 1
             /\ last' = IF decision = "CONFLICT"
                        THEN Answer("create", decision, 0, req)
                        ELSE Answer("create", "CREATED", nextBookingId, req)
             /\ UNCHANGED <<systemSettings, feedbacks, catalog, checkInRequests, procs>>

\* POST /api/bookings
CreateBooking(u, req) ==
    LET decision == CreateDecision(catalog, bookings, req)
    IN  IF decision \in {"BAD_REQUEST", "NOT_FOUND", "CONFLICT"}
        THEN /\ last' = Answer("create", decision, 0, req)
             /\ UNCHANGED <<systemSettings, feedbacks, catalog, bookings, nextBookingId, checkInRequests, procs>>
        ELSE /\ nextBookingId <= MaxBookings
             /\ bookings' = [bookings EXCEPT
                                ![nextBookingId] = NewBooking(u, req, decision)]
             /\ nextBookingId' = nextBookingId + 1
             /\ last' = Answer("create", "CREATED", nextBookingId, req)
             /\ UNCHANGED <<systemSettings, feedbacks, catalog, checkInRequests, procs>>

\* a handler that answers with an error and stores nothing
Refuse(op, result) ==
    /\ last' = Answer(op, result, 0, NoRequest)
    /\ UNCHANGED <<systemSettings, feedbacks, catalog, bookings, nextBookingId, checkInRequests, procs>>

\* mutant: the audit log is replaced by the new entry
SaveBookingReplaceAudit(op, id, b, action) ==
    /\ Len(bookings[id].audit) < MaxAudit
    /\ bookings' = [bookings EXCEPT ![id] = [b EXCEPT !.audit = <<action>>]]
    /\ last' = Answer(op, "OK", id, NoRequest)
    /\ UNCHANGED <<systemSettings, feedbacks, catalog, nextBookingId, checkInRequests, procs>>

\* booking.audit.push({ action }); booking.save()
SaveBooking(op, id, b, action) ==
    /\ Len(bookings[id].audit) < MaxAudit
    /\ bookings' = [bookings EXCEPT ![id] = [b EXCEPT !.audit = Append(@, action)]]
    /\ last' = Answer(op, "OK", id, NoRequest)
    /\ UNCHANGED <<systemSettings, feedbacks, catalog, nextBookingId, checkInRequests, procs>>

\* mutant: the status guard of the approve handler is left out
ApproveBookingNoGuard(id) ==
    LET b == bookings[id]
    IN  IF b = NoBooking
        THEN Refuse("approve", "NOT_FOUND")
        ELSE SaveBooking("approve", id,
                 [b EXCEPT !.status = "APPROVED", !.approvalType = "MANUAL"],
                 "BOOKING_APPROVED")

\* PATCH /api/bookings/:id/approve (ADMIN only)
ApproveBooking(id) ==
    LET b == bookings[id]
    IN  IF b = NoBooking
        THEN Refuse("approve", "NOT_FOUND")
        ELSE IF b.status # "PENDING_ADMIN" /\ b.status # "PENDING"
        THEN Refuse("approve", "BAD_REQUEST")
        ELSE SaveBooking("approve", id,
                 [b EXCEPT !.status = "APPROVED", !.approvalType = "MANUAL"],
                 "BOOKING_APPROVED")

\* PATCH /api/bookings/:id/reject (ADMIN only)
RejectBooking(id) ==
    LET b == bookings[id]
    IN  IF b = NoBooking
        THEN Refuse("reject", "NOT_FOUND")
        ELSE SaveBooking("reject", id,
                 [b EXCEPT !.status = "REJECTED", !.approvalType = "MANUAL"],
                 "BOOKING_REJECTED")

\* PATCH /api/bookings/:id/cancel
CancelBooking(actor, id, notes) ==
    LET b == bookings[id]
    IN  IF b = NoBooking
        THEN Refuse("cancel", "NOT_FOUND")
        ELSE IF actor # Admin /\ b.userId # actor
        THEN Refuse("cancel", "FORBIDDEN")
        ELSE IF b.status = "CHECKED_IN" \/ b.status = "CHECKED_OUT"
        THEN Refuse("cancel", "BAD_REQUEST")
        ELSE SaveBooking("cancel", id,
                 [b EXCEPT !.status = "CANCELLED",
                           !.approvalType =
                               IF notes /\ @ = "NONE" THEN "MANUAL" ELSE @],
                 "BOOKING_CANCELLED")

\* DELETE /api/bookings/:id (ADMIN only)
DeleteBooking(id) ==
    IF bookings[id] = NoBooking
    THEN Refuse("delete", "NOT_FOUND")
    ELSE /\ bookings' = [bookings EXCEPT ![id] = NoBooking]
         /\ last' = Answer("delete", "OK", id, NoRequest)
         /\ UNCHANGED <<systemSettings, feedbacks, catalog, nextBookingId, checkInRequests, procs>>

\* mutant: the scanner does not look at the clock
ScanBookingNoWindow(id, now) ==
    LET b == bookings[id]
    IN  IF b = NoBooking
        THEN Refuse("scan", "NOT_FOUND")
        ELSE IF b.status \notin {"APPROVED", "CHECKED_IN"}
        THEN Refuse("scan", "BAD_REQUEST")
        ELSE IF b.status = "APPROVED"
        THEN SaveBooking("scan", id,
                 [b EXCEPT !.status = "CHECKED_IN", !.checkInAt = now],
                 "QR_CHECKIN")
        ELSE SaveBooking("scan", id,
                 [b EXCEPT !.status = "CHECKED_OUT", !.checkOutAt = now],
                 "QR_CHECKOUT")

\* POST /api/qr-scanner/scan (ADMIN, STAFF): the booking is found by its code
ScanBooking(id, now) ==
    LET b == bookings[id]
    IN  IF b = NoBooking
        THEN Refuse("scan", "NOT_FOUND")
        ELSE IF b.status \notin {"APPROVED", "CHECKED_IN"}
        THEN Refuse("scan", "BAD_REQUEST")
        ELSE IF now < b.startTime - CheckInWindow
        THEN Refuse("scan", "BAD_REQUEST")
        ELSE IF now > b.endTime + CheckInWindow
        THEN Refuse("scan", "BAD_REQUEST")
        ELSE IF b.status = "APPROVED"
        THEN SaveBooking("scan", id,
                 [b EXCEPT !.status = "CHECKED_IN", !.checkInAt = now],
                 "QR_CHECKIN")
        ELSE SaveBooking("scan", id,
                 [b EXCEPT !.status = "CHECKED_OUT", !.checkOutAt = now],
                 "QR_CHECKOUT")

\* -------------------------------------------------------- check-in requests
RequestIds == 1..MaxCheckInRequests
RequestTypes == {"CHECK_IN", "CHECK_OUT"}

\* CheckInRequest.findOne({ bookingId, type, status: 'PENDING' })
PendingRequests(reqs, bookingId, type) ==
    {r \in DOMAIN reqs :
        /\ reqs[r].bookingId = bookingId
        /\ reqs[r].type = type
        /\ reqs[r].status = "PENDING"}

\* POST /api/check-in-requests
CreateCheckInRequest(u, bookingId, type) ==
    LET b == bookings[bookingId]
    IN  IF b = NoBooking
        THEN Refuse("request", "NOT_FOUND")
        ELSE IF b.userId # u
        THEN Refuse("request", "FORBIDDEN")
        ELSE IF PendingRequests(checkInRequests, bookingId, type) # {}
        THEN Refuse("request", "BAD_REQUEST")
        ELSE /\ Len(checkInRequests) < MaxCheckInRequests
             /\ checkInRequests' = Append(checkInRequests,
                    [bookingId |-> bookingId, userId |-> u, type |-> type,
                     status |-> "PENDING"])
             /\ last' = Answer("request", "CREATED", bookingId, NoRequest)
             /\ UNCHANGED <<systemSettings, feedbacks, catalog, bookings, nextBookingId, procs>>

\* PATCH /api/check-in-requests/:id/approve (ADMIN, STAFF)
ApproveCheckInRequest(r, now) ==
    IF r \notin DOMAIN checkInRequests
    THEN Refuse("approveRequest", "NOT_FOUND")
    ELSE LET request == checkInRequests[r]
             b == bookings[request.bookingId]
         IN  IF request.status # "PENDING"
             THEN Refuse("approveRequest", "BAD_REQUEST")
             ELSE IF b = NoBooking
             THEN Refuse("approveRequest", "NOT_FOUND")
             ELSE /\ Len(b.audit) < MaxAudit
                  /\ bookings' = [bookings EXCEPT ![request.bookingId] =
                        IF request.type = "CHECK_IN"
                        THEN [b EXCEPT !.status = "CHECKED_IN",
                                       !.checkInAt = now,
                                       !.audit = Append(@, "MANUAL_CHECK_IN")]
                        ELSE [b EXCEPT !.status = "CHECKED_OUT",
                                       !.checkOutAt = now,
                                       !.audit = Append(@, "MANUAL_CHECK_OUT")]]
                  /\ checkInRequests' =
                        [checkInRequests EXCEPT ![r].status = "APPROVED"]
                  /\ last' = Answer("approveRequest", "OK", request.bookingId,
                                    NoRequest)
                  /\ UNCHANGED <<systemSettings, feedbacks, catalog, nextBookingId, procs>>

\* PATCH /api/check-in-requests/:id/reject (ADMIN, STAFF)
RejectCheckInRequest(r) ==
    IF r \notin DOMAIN checkInRequests
    THEN Refuse("rejectRequest", "NOT_FOUND")
    ELSE IF checkInRequests[r].status # "PENDING"
    THEN Refuse("rejectRequest", "BAD_REQUEST")
    ELSE /\ checkInRequests' = [checkInRequests EXCEPT ![r].status = "REJECTED"]
         /\ last' = Answer("rejectRequest", "OK", checkInRequests[r].bookingId,
                           NoRequest)
         /\ UNCHANGED <<systemSettings, feedbacks, catalog, bookings, nextBookingId, procs>>

\* ---------------------------------------------- the booking life cycle, serial
\* the requests, actors and instants the serial specification draws from
\* (one facility, windows that all start at 0 and so overlap each other)
LifeCycleRequests ==
    {req \in Requests : /\ req.hasFacilityIds
                        /\ req.facilityIds = <<"f1">>
                        /\ req.startTime = 0
                        /\ req.endTime # Missing
                        /\ req.startTime < req.endTime}
LifeCycleClock == {1}

Next ==
    \/ \E req \in LifeCycleRequests : CreateBooking("u1", req)
    \/ \E id \in BookingIds : ApproveBooking(id)
    \/ \E id \in BookingIds : RejectBooking(id)
    \/ \E actor \in Users \cup {Admin}, id \in BookingIds, notes \in BOOLEAN :
           CancelBooking(actor, id, notes)
    \/ \E id \in BookingIds : DeleteBooking(id)
    \/ \E id \in BookingIds, now \in LifeCycleClock : ScanBooking(id, now)
    \/ \E u \in Users, id \in BookingIds, type \in RequestTypes :
           CreateCheckInRequest(u, id, type)
    \/ \E r \in RequestIds, now \in LifeCycleClock : ApproveCheckInRequest(r, now)
    \/ \E r \in RequestIds : RejectCheckInRequest(r)

Spec == Init /\ [][Next]_vars

\* ------------------------------------------- the admission decision, applied
\* The decision of POST /api/bookings is a function of the catalog, the store
\* and the request: it is applied once to every catalog and store drawn here.

\* f1 takes every type and flag; f2 is a plain LAB
Catalogs ==
    {[f \in Facilities |->
         IF f = "f1"
         THEN [type |-> t, active |-> a, maintenanceMode |-> m,
               isRestricted |-> r,
               minBookingMinutes |-> DefaultMinBookingMinutes,
               maxBookingMinutes |-> DefaultMaxBookingMinutes]
         ELSE InitCatalog[f]] :
     t \in FacilityTypes, a \in BOOLEAN, m \in BOOLEAN, r \in BOOLEAN}

\* a stored booking in a status of the schema's enum, with the fields the
\* handlers leave on a booking in that status
ExistingBooking(facilityIds, startTime, endTime, status) ==
    [userId |-> "u1",
     facilities |-> facilityIds,
     startTime |-> startTime,
     endTime |-> endTime,
     status |-> status,
     isExternal |-> FALSE,
     approvalType |->
         IF status \in {"APPROVED", "CHECKED_IN", "CHECKED_OUT", "EXPIRED"}
         THEN "AUTO"
         ELSE IF status = "REJECTED" THEN "MANUAL" ELSE "NONE",
     checkInAt |->
         IF status \in {"CHECKED_IN", "CHECKED_OUT"} THEN startTime ELSE Missing,
     checkOutAt |-> IF status = "CHECKED_OUT" THEN endTime ELSE Missing,
     audit |->
         <<"BOOKING_CREATED">> \o
         (CASE status = "REJECTED" -> <<"BOOKING_REJECTED">>
            [] status = "CANCELLED" -> <<"BOOKING_CANCELLED">>
            [] status = "CHECKED_IN" -> <<"QR_CHECKIN">>
            [] status = "CHECKED_OUT" -> <<"QR_CHECKIN", "QR_CHECKOUT">>
            [] OTHER -> <<>>)]

ExistingBookings ==
    {ExistingBooking(ids, s, e, st) :
        ids \in {<<"f1">>, <<"f2">>, <<"f1", "f2">>},
        s \in Times, e \in Times, st \in BookingStatuses}

InitAdmission ==
    /\ catalog \in Catalogs
    /\ \E b \in {x \in ExistingBookings : x.startTime < x.endTime}
               \cup {NoBooking} :
           bookings = [i \in BookingIds |-> IF i = 1 THEN b ELSE NoBooking]
    /\ nextBookingId = 2
    /\ checkInRequests = <<>>
    /\ last = Answer("none", "NONE", 0, NoRequest)
    /\ procs = [p \in Procs |-> IdleProc]
    /\ systemSettings = DefaultSettings
    /\ feedbacks = <<>>

\* one request is decided against the drawn catalog and store
NextAdmission ==
    \E u \in Users, req \in Requests :
        /\ last.op = "none"
        /\ CreateBooking(u, req)

SpecAdmission == InitAdmission /\ [][NextAdmission]_vars

\* ------------------------------------------------ one handler, on any booking
\* Every handler is applied once to a store that holds one booking in any
\* status of the schema's enum, with or without a pending check-in request.
GuardBookings ==
    {ExistingBooking(<<"f1">>, 0, e, st) :
        e \in {x \in Times : 0 < x}, st \in BookingStatuses}

GuardRequests ==
    {<<>>} \cup
    {<<[bookingId |-> 1, userId |-> "u1", type |-> type, status |-> "PENDING"]>> :
        type \in RequestTypes}

InitGuards ==
    /\ catalog = InitCatalog
    /\ \E b \in GuardBookings :
           bookings = [i \in BookingIds |-> IF i = 1 THEN b ELSE NoBooking]
    /\ nextBookingId = 2
    /\ checkInRequests \in GuardRequests
    /\ last = Answer("none", "NONE", 0, NoRequest)
    /\ procs = [p \in Procs |-> IdleProc]
    /\ systemSettings = DefaultSettings
    /\ feedbacks = <<>>

\* no handler has run yet
Fresh == last.op = "none"

NextGuards ==
    \/ \E req \in LifeCycleRequests : Fresh /\ CreateBooking("u1", req)
    \/ \E id \in BookingIds : Fresh /\ ApproveBooking(id)
    \/ \E id \in BookingIds : Fresh /\ RejectBooking(id)
    \/ \E actor \in Users \cup {Admin}, id \in BookingIds, notes \in BOOLEAN :
           Fresh /\ CancelBooking(actor, id, notes)
    \/ \E id \in BookingIds : Fresh /\ DeleteBooking(id)
    \/ \E id \in BookingIds, now \in Clock : Fresh /\ ScanBooking(id, now)
    \/ \E u \in Users, id \in BookingIds, type \in RequestTypes :
           Fresh /\ CreateCheckInRequest(u, id, type)
    \/ \E r \in RequestIds, now \in Clock :
           Fresh /\ ApproveCheckInRequest(r, now)
    \/ \E r \in RequestIds : Fresh /\ RejectCheckInRequest(r)

SpecGuards == InitGuards /\ [][NextGuards]_vars

\* --------------------------------------- the admission and the booking rules
\* f1 takes the duration bounds a saved facility can have (minBookingMinutes at
\* least 15, maxBookingMinutes at least 30, the first below the second)
DurationCatalogs ==
    {cat \in {[InitCatalog EXCEPT !["f1"].minBookingMinutes = lo,
                                  !["f1"].maxBookingMinutes = hi] :
                 lo \in {30, 60}, hi \in {60, 480}} :
        cat["f1"].minBookingMinutes < cat["f1"].maxBookingMinutes}

InitDuration ==
    /\ catalog \in DurationCatalogs
    /\ bookings = [i \in BookingIds |-> NoBooking]
    /\ nextBookingId = 1
    /\ checkInRequests = <<>>
    /\ last = Answer("none", "NONE", 0, NoRequest)
    /\ procs = [p \in Procs |-> IdleProc]
    /\ systemSettings = DefaultSettings
    /\ feedbacks = <<>>

SpecDuration == InitDuration /\ [][NextAdmission]_vars

\* ------------------------------------------------------------- facilities
\* PATCH /api/facilities/:id (ADMIN only): the keys of the body are copied to
\* the document; the body carries active or maintenanceMode
UpdateFacility(f, key, value) ==
    IF f \notin Facilities
    THEN Refuse("updateFacility", "NOT_FOUND")
    ELSE /\ catalog' =
                IF key = "active"
                THEN [catalog EXCEPT ![f].active = value]
                ELSE [catalog EXCEPT ![f].maintenanceMode = value]
         /\ last' = Answer("updateFacility", "OK", 0, NoRequest)
         /\ UNCHANGED <<systemSettings, feedbacks, bookings, nextBookingId,
                        checkInRequests, procs>>

\* mutant: the bookings of the facility are removed with it
DeleteFacilityCascade(f) ==
    IF f \notin Facilities
    THEN Refuse("deleteFacility", "NOT_FOUND")
    ELSE /\ catalog' = [catalog EXCEPT ![f].active = FALSE]
         /\ bookings' = [i \in BookingIds |->
                IF bookings[i] # NoBooking /\ f \in Range(bookings[i].facilities)
                THEN NoBooking ELSE bookings[i]]
         /\ last' = Answer("deleteFacility", "OK", 0, NoRequest)
         /\ UNCHANGED <<systemSettings, feedbacks, nextBookingId,
                        checkInRequests, procs>>

\* DELETE /api/facilities/:id (ADMIN only): soft delete
DeleteFacility(f) ==
    IF f \notin Facilities
    THEN Refuse("deleteFacility", "NOT_FOUND")
    ELSE /\ catalog' = [catalog EXCEPT ![f].active = FALSE]
         /\ last' = Answer("deleteFacility", "OK", 0, NoRequest)
         /\ UNCHANGED <<systemSettings, feedbacks, bookings, nextBookingId,
                        checkInRequests, procs>>

\* ------------------------------------------------------- system settings
\* PATCH /api/system-settings: the keys of the body are copied to the document
UpdateSettings(actor, hasKey, enabled) ==
    IF actor # Admin
    THEN Refuse("settings", "FORBIDDEN")
    ELSE /\ systemSettings' =
                IF hasKey
                THEN [systemSettings EXCEPT !.autoApprovalEnabled = enabled]
                ELSE systemSettings
         /\ last' = Answer("settings", "OK", 0, NoRequest)
         /\ UNCHANGED <<feedbacks, catalog, bookings, nextBookingId,
                        checkInRequests, procs>>

\* POST /api/system-settings/reset
ResetSettings(actor) ==
    IF actor # Admin
    THEN Refuse("resetSettings", "FORBIDDEN")
    ELSE /\ systemSettings' = DefaultSettings
         /\ last' = Answer("resetSettings", "OK", 0, NoRequest)
         /\ UNCHANGED <<feedbacks, catalog, bookings, nextBookingId,
                        checkInRequests, procs>>

\* the requests drawn while the settings change: proper windows on known
\* facilities
SettingsRequests ==
    {req \in Requests : /\ req.hasFacilityIds
                        /\ req.facilityIds \in {<<"f1">>, <<"f2">>, <<"f1", "f2">>}
                        /\ req.startTime # Missing
                        /\ req.endTime # Missing
                        /\ req.startTime < req.endTime}

NextSettings ==
    \/ \E actor \in {"u1", Admin}, hasKey \in BOOLEAN, enabled \in BOOLEAN :
           UpdateSettings(actor, hasKey, enabled)
    \/ \E actor \in {"u1", Admin} : ResetSettings(actor)
    \/ \E req \in SettingsRequests : CreateBooking("u1", req)

SpecSettings == Init /\ [][NextSettings]_vars

\* facility changes interleaved with booking creation
NextCatalog ==
    \/ \E f \in Facilities \cup {UnknownFacility},
          key \in {"active", "maintenanceMode"}, value \in BOOLEAN :
           UpdateFacility(f, key, value)
    \/ \E f \in Facilities \cup {UnknownFacility} : DeleteFacility(f)
    \/ \E req \in SettingsRequests : CreateBooking("u1", req)

SpecCatalog == Init /\ [][NextCatalog]_vars

\* ------------------------------------------------------------------ feedback
\* the ratings a body may carry: absent, below, within and above 1..5
Ratings == {Missing, 0, 1, 5, 6}

\* Feedback.findOne({ bookingId, userId })
ExistingFeedback(fbs, bookingId, u) ==
    {k \in DOMAIN fbs : fbs[k].bookingId = bookingId /\ fbs[k].userId = u}

\* mutant: the lookup of an earlier feedback is left out
SubmitFeedbackNoLookup(u, bookingId, rating) ==
    LET b == bookings[bookingId]
    IN  IF b = NoBooking
        THEN Refuse("feedback", "NOT_FOUND")
        ELSE IF b.userId # u
        THEN Refuse("feedback", "FORBIDDEN")
        ELSE IF b.status # "CHECKED_OUT"
        THEN Refuse("feedback", "BAD_REQUEST")
        ELSE IF rating < 1 \/ rating > 5
        THEN Refuse("feedback", "BAD_REQUEST")
        ELSE /\ Len(feedbacks) < MaxFeedbacks
             /\ feedbacks' = Append(feedbacks,
                    [bookingId |-> bookingId, userId |-> u, rating |-> rating])
             /\ last' = Answer("feedback", "CREATED", bookingId, NoRequest)
             /\ UNCHANGED <<systemSettings, catalog, bookings, nextBookingId,
                            checkInRequests, procs>>

\* POST /api/feedback; a rating outside 1..5 fails the schema's validation
SubmitFeedback(u, bookingId, rating) ==
    LET b == bookings[bookingId]
    IN  IF b = NoBooking
        THEN Refuse("feedback", "NOT_FOUND")
        ELSE IF b.userId # u
        THEN Refuse("feedback", "FORBIDDEN")
        ELSE IF b.status # "CHECKED_OUT"
        THEN Refuse("feedback", "BAD_REQUEST")
        ELSE IF ExistingFeedback(feedbacks, bookingId, u) # {}
        THEN Refuse("feedback", "BAD_REQUEST")
        ELSE IF rating < 1 \/ rating > 5
        THEN Refuse("feedback", "BAD_REQUEST")
        ELSE /\ Len(feedbacks) < MaxFeedbacks
             /\ feedbacks' = Append(feedbacks,
                    [bookingId |-> bookingId, userId |-> u, rating |-> rating])
             /\ last' = Answer("feedback", "CREATED", bookingId, NoRequest)
             /\ UNCHANGED <<systemSettings, catalog, bookings, nextBookingId,
                            checkInRequests, procs>>

\* feedback submissions on a booking in any status, which scans move on
NextFeedback ==
    \/ \E u \in Users, id \in BookingIds, rating \in Ratings :
           SubmitFeedback(u, id, rating)
    \/ \E id \in BookingIds, now \in LifeCycleClock : ScanBooking(id, now)

SpecFeedback == InitGuards /\ [][NextFeedback]_vars

\* -------------------------------------- POST /api/bookings, handlers in flight
\* Two handlers run the statements of router.post('/') in order; each step
\* below ends at an await on the database, where the other handler may run.

\* lines 72-86: the body is read and Facility.find runs
RaceValidate(p) ==
    LET me == procs[p]
        facilities == FindActiveFacilities(catalog, me.req.facilityIds)
        refused ==
            IF \/ ~me.req.hasFacilityIds
               \/ me.req.startTime = Missing
               \/ me.req.endTime = Missing
            THEN "BAD_REQUEST"
            ELSE IF Cardinality(facilities) # Len(me.req.facilityIds)
            THEN "NOT_FOUND"
            ELSE "NONE"
    IN  /\ me.pc = "validate"
        /\ IF refused # "NONE"
           THEN /\ procs' = [procs EXCEPT ![p].pc = "done",
                                          ![p].result = refused]
                /\ last' = Answer("create", refused, 0, me.req)
           ELSE /\ procs' = [procs EXCEPT ![p].pc = "conflicts",
                                          ![p].facilities = facilities]
                /\ UNCHANGED last
        /\ UNCHANGED <<systemSettings, feedbacks, catalog, bookings, nextBookingId, checkInRequests>>

\* lines 88-102: the conflict query runs and is answered
RaceCheckConflicts(p) ==
    LET me == procs[p]
    IN  /\ me.pc = "conflicts"
        /\ IF OverlappingBookings(bookings, Range(me.req.facilityIds),
                                  me.req.startTime, me.req.endTime) # {}
           THEN /\ procs' = [procs EXCEPT ![p].pc = "done",
                                          ![p].result = "CONFLICT"]
                /\ last' = Answer("create", "CONFLICT", 0, me.req)
           ELSE /\ procs' = [procs EXCEPT ![p].pc = "capacity"]
                /\ UNCHANGED last
        /\ UNCHANGED <<systemSettings, feedbacks, catalog, bookings, nextBookingId, checkInRequests>>

\* lines 109-149: the restriction flags and the capacity queries
RaceCheckCapacity(p) ==
    LET me == procs[p]
    IN  /\ me.pc = "capacity"
        /\ procs' = [procs EXCEPT
               ![p].pc = "save",
               ![p].requiresAdminApproval =
                   RequiresAdminApproval(catalog, bookings, me.facilities,
                                         me.req)]
        /\ UNCHANGED <<systemSettings, feedbacks, catalog, bookings, nextBookingId, checkInRequests, last>>

\* lines 151-194: the booking is built and saved, with its audit entry
RaceSave(p) ==
    LET me == procs[p]
        status == IF me.requiresAdminApproval THEN "PENDING_ADMIN"
                  ELSE "APPROVED"
    IN  /\ me.pc = "save"
        /\ nextBookingId <= MaxBookings
        /\ bookings' = [bookings EXCEPT
               ![nextBookingId] = NewBooking(me.userId, me.req, status)]
        /\ nextBookingId' = nextBookingId + 1
        /\ procs' = [procs EXCEPT ![p].pc = "done", ![p].result = "CREATED",
                                  ![p].id = nextBookingId]
        /\ last' = Answer("create", "CREATED", nextBookingId, me.req)
        /\ UNCHANGED <<systemSettings, feedbacks, catalog, checkInRequests>>

\* the requests in flight: one facility, every proper window
RaceRequests ==
    {req \in Requests : /\ req.hasFacilityIds
                        /\ req.facilityIds = <<"f1">>
                        /\ req.startTime # Missing
                        /\ req.endTime # Missing
                        /\ req.startTime < req.endTime}

InitRace ==
    /\ catalog = InitCatalog
    /\ bookings = [i \in BookingIds |-> NoBooking]
    /\ nextBookingId = 1
    /\ checkInRequests = <<>>
    /\ last = Answer("none", "NONE", 0, NoRequest)
    /\ procs \in [Procs -> {[IdleProc EXCEPT !.pc = "validate", !.userId = u,
                                             !.req = req] :
                                u \in Users, req \in RaceRequests}]
    /\ systemSettings = DefaultSettings
    /\ feedbacks = <<>>

NextRace ==
    \/ \E p \in Procs : RaceValidate(p)
    \/ \E p \in Procs : RaceCheckConflicts(p)
    \/ \E p \in Procs : RaceCheckCapacity(p)
    \/ \E p \in Procs : RaceSave(p)

SpecRace == InitRace /\ [][NextRace]_vars

\* ------------------------------- approve and cancel, handlers in flight
\* The approve handler (p1) and the cancel handler (p2) of one booking each
\* read the document, check their guards, and later save the paths they
\* modified: status and approval by $set, the audit entry by $push.

\* bookings.js 216-228: Booking.findById and the guards of approve
ApproveRead(p) ==
    LET me == procs[p]
        b == bookings[me.id]
        refused == IF b = NoBooking THEN "NOT_FOUND"
                   ELSE IF b.status # "PENDING_ADMIN" /\ b.status # "PENDING"
                   THEN "BAD_REQUEST"
                   ELSE "NONE"
    IN  /\ me.pc = "approveRead"
        /\ IF refused # "NONE"
           THEN /\ procs' = [procs EXCEPT ![p].pc = "done",
                                          ![p].result = refused]
                /\ last' = Answer("approve", refused, 0, NoRequest)
           ELSE /\ procs' = [procs EXCEPT ![p].pc = "approveWrite"]
                /\ UNCHANGED last
        /\ UNCHANGED <<systemSettings, feedbacks, catalog, bookings,
                       nextBookingId, checkInRequests>>

\* bookings.js 230-256: the assignments and booking.save() of approve
ApproveWrite(p) ==
    LET me == procs[p]
    IN  /\ me.pc = "approveWrite"
        /\ Len(bookings[me.id].audit) < MaxAudit
        /\ bookings' = [bookings EXCEPT ![me.id] =
               [@ EXCEPT !.status = "APPROVED", !.approvalType = "MANUAL",
                         !.audit = Append(@, "BOOKING_APPROVED")]]
        /\ procs' = [procs EXCEPT ![p].pc = "done", ![p].result = "OK"]
        /\ last' = Answer("approve", "OK", me.id, NoRequest)
        /\ UNCHANGED <<systemSettings, feedbacks, catalog, nextBookingId,
                       checkInRequests>>

\* bookings.js 310-326: Booking.findById and the guards of cancel
CancelRead(p) ==
    LET me == procs[p]
        b == bookings[me.id]
        refused == IF b = NoBooking THEN "NOT_FOUND"
                   ELSE IF me.userId # Admin /\ b.userId # me.userId
                   THEN "FORBIDDEN"
                   ELSE IF b.status = "CHECKED_IN" \/ b.status = "CHECKED_OUT"
                   THEN "BAD_REQUEST"
                   ELSE "NONE"
    IN  /\ me.pc = "cancelRead"
        /\ IF refused # "NONE"
           THEN /\ procs' = [procs EXCEPT ![p].pc = "done",
                                          ![p].result = refused]
                /\ last' = Answer("cancel", refused, 0, NoRequest)
           ELSE /\ procs' = [procs EXCEPT ![p].pc = "cancelWrite"]
                /\ UNCHANGED last
        /\ UNCHANGED <<systemSettings, feedbacks, catalog, bookings,
                       nextBookingId, checkInRequests>>

\* bookings.js 328-342: the assignments and booking.save() of cancel (a body
\* without notes)
CancelWrite(p) ==
    LET me == procs[p]
    IN  /\ me.pc = "cancelWrite"
        /\ Len(bookings[me.id].audit) < MaxAudit
        /\ bookings' = [bookings EXCEPT ![me.id] =
               [@ EXCEPT !.status = "CANCELLED",
                         !.audit = Append(@, "BOOKING_CANCELLED")]]
        /\ procs' = [procs EXCEPT ![p].pc = "done", ![p].result = "OK"]
        /\ last' = Answer("cancel", "OK", me.id, NoRequest)
        /\ UNCHANGED <<systemSettings, feedbacks, catalog, nextBookingId,
                       checkInRequests>>

\* one booking in any status; the admin approves it while the owner, another
\* user or the admin cancels it
InitApproveCancel ==
    /\ catalog = InitCatalog
    /\ \E b \in GuardBookings :
           bookings = [i \in BookingIds |-> IF i = 1 THEN b ELSE NoBooking]
    /\ nextBookingId = 2
    /\ checkInRequests = <<>>
    /\ last = Answer("none", "NONE", 0, NoRequest)
    /\ \E actor \in Users \cup {Admin} :
           procs = [p \in Procs |->
               IF p = "p1"
               THEN [IdleProc EXCEPT !.pc = "approveRead", !.userId = Admin,
                                     !.id = 1]
               ELSE [IdleProc EXCEPT !.pc = "cancelRead", !.userId = actor,
                                     !.id = 1]]
    /\ systemSettings = DefaultSettings
    /\ feedbacks = <<>>

NextApproveCancel ==
    \/ \E p \in Procs : ApproveRead(p)
    \/ \E p \in Procs : ApproveWrite(p)
    \/ \E p \in Procs : CancelRead(p)
    \/ \E p \in Procs : CancelWrite(p)

SpecApproveCancel == InitApproveCancel /\ [][NextApproveCancel]_vars

\* ------------------------- POST /api/check-in-requests, handlers in flight
\* Two create-request handlers run between their awaits while the staff
\* approves and rejects the requests that are stored.

RaceRequestIds == 1..MaxRaceRequests

\* a handler that has parsed its body: bookingId, facilityId and type present
RequestProc(u, bookingId, type) ==
    [pc |-> "requestFindBooking", userId |-> u, id |-> bookingId,
     type |-> type, result |-> "NONE"]

\* part_010 58-66: Booking.findById and the ownership check
RequestFindBooking(p) ==
    LET me == procs[p]
        b == bookings[me.id]
        refused == IF b = NoBooking THEN "NOT_FOUND"
                   ELSE IF b.userId # me.userId THEN "FORBIDDEN"
                   ELSE "NONE"
    IN  /\ me.pc = "requestFindBooking"
        /\ IF refused # "NONE"
           THEN /\ procs' = [procs EXCEPT ![p].pc = "done",
                                          ![p].result = refused]
                /\ last' = Answer("request", refused, 0, NoRequest)
           ELSE /\ procs' = [procs EXCEPT ![p].pc = "requestFindPending"]
                /\ UNCHANGED last
        /\ UNCHANGED <<systemSettings, feedbacks, catalog, bookings,
                       nextBookingId, checkInRequests>>

\* part_010 68-79: CheckInRequest.findOne for a PENDING request
RequestFindPending(p) ==
    LET me == procs[p]
    IN  /\ me.pc = "requestFindPending"
        /\ IF PendingRequests(checkInRequests, me.id, me.type) # {}
           THEN /\ procs' = [procs EXCEPT ![p].pc = "done",
                                          ![p].result = "BAD_REQUEST"]
                /\ last' = Answer("request", "BAD_REQUEST", 0, NoRequest)
           ELSE /\ procs' = [procs EXCEPT ![p].pc = "requestSave"]
                /\ UNCHANGED last
        /\ UNCHANGED <<systemSettings, feedbacks, catalog, bookings,
                       nextBookingId, checkInRequests>>

\* part_010 81-89: new CheckInRequest and request.save()
RequestSave(p) ==
    LET me == procs[p]
    IN  /\ me.pc = "requestSave"
        /\ Len(checkInRequests) < MaxRaceRequests
        /\ checkInRequests' = Append(checkInRequests,
               [bookingId |-> me.id, userId |-> me.userId, type |-> me.type,
                status |-> "PENDING"])
        /\ procs' = [procs EXCEPT ![p].pc = "done", ![p].result = "CREATED"]
        /\ last' = Answer("request", "CREATED", me.id, NoRequest)
        /\ UNCHANGED <<systemSettings, feedbacks, catalog, bookings,
                       nextBookingId>>

\* one booking of u1 in any status, no request stored yet
InitRequestRace ==
    /\ catalog = InitCatalog
    /\ \E b \in GuardBookings :
           bookings = [i \in BookingIds |-> IF i = 1 THEN b ELSE NoBooking]
    /\ nextBookingId = 2
    /\ checkInRequests = <<>>
    /\ last = Answer("none", "NONE", 0, NoRequest)
    /\ \E u \in Users, t1 \in RequestTypes, t2 \in RequestTypes :
           procs = [p \in Procs |->
               RequestProc(u, 1, IF p = "p1" THEN t1 ELSE t2)]
    /\ systemSettings = DefaultSettings
    /\ feedbacks = <<>>

NextRequestRace ==
    \/ \E p \in Procs : RequestFindBooking(p)
    \/ \E p \in Procs : RequestFindPending(p)
    \/ \E p \in Procs : RequestSave(p)
    \/ \E r \in RaceRequestIds : ApproveCheckInRequest(r, 1)
    \/ \E r \in RaceRequestIds : RejectCheckInRequest(r)

SpecRequestRace == InitRequestRace /\ [][NextRequestRace]_vars

\* ------------------------------------------------ claims on the admission
\* the request the last create handler decided, and the store it read
LastReq == last.req
Created == last.op = "create" /\ last.result = "CREATED"
StoreBefore ==
    IF Created THEN [bookings EXCEPT ![last.id] = NoBooking] ELSE bookings
WellFormed(req) ==
    req.hasFacilityIds /\ req.startTime # Missing /\ req.endTime # Missing
\* the create handler got as far as its conflict query
ReachedConflictCheck ==
    /\ last.op = "create"
    /\ last.result \notin {"BAD_REQUEST", "NOT_FOUND"}
SharesFacility(b, req) ==
    \E f \in Range(req.facilityIds) : f \in Range(b.facilities)
Blocks(b) == b.status \notin {"REJECTED", "CANCELLED", "EXPIRED"}
\* facility g is named by a blocking reservation whose window meets the request's
Reserved(g, req) ==
    \E i \in Stored(StoreBefore) :
        /\ g \in Range(StoreBefore[i].facilities)
        /\ Blocks(StoreBefore[i])
        /\ StoreBefore[i].startTime < req.endTime
        /\ req.startTime < StoreBefore[i].endTime
Pool(type) ==
    {g \in Facilities : /\ catalog[g].type = type
                        /\ catalog[g].active
                        /\ ~catalog[g].maintenanceMode}
RequestedTypes(req) ==
    {catalog[f].type : f \in Range(req.facilityIds) \cap Facilities}

\* C3: a create request [c,d) that reaches the conflict check is refused with
\* the conflict error if and only if some blocking reservation [a,b) on one of
\* its facilities has a < d and c < b; a window that only touches is accepted.
C3_ConflictIffOverlap ==
    ReachedConflictCheck =>
        (last.result = "CONFLICT" <=>
            \E i \in Stored(StoreBefore) :
                /\ Blocks(StoreBefore[i])
                /\ SharesFacility(StoreBefore[i], LastReq)
                /\ StoreBefore[i].startTime < LastReq.endTime
                /\ LastReq.startTime < StoreBefore[i].endTime)

\* C3 witness: a request that starts exactly when a blocking reservation on the
\* same facility ends was stored.
C3_Witness ==
    /\ Created
    /\ \E i \in Stored(StoreBefore) :
           /\ Blocks(StoreBefore[i])
           /\ SharesFacility(StoreBefore[i], LastReq)
           /\ StoreBefore[i].endTime = LastReq.startTime
           /\ LastReq.startTime < LastReq.endTime

\* C4: a reservation whose window meets the request's blocks it exactly when it
\* shares a facility with it and is PENDING, PENDING_ADMIN, APPROVED, CHECKED_IN
\* or CHECKED_OUT; a REJECTED, CANCELLED or EXPIRED one never blocks.
C4_BlockingStatuses ==
    ReachedConflictCheck =>
        LET meets == {i \in Stored(StoreBefore) :
                         /\ StoreBefore[i].startTime < LastReq.endTime
                         /\ LastReq.startTime < StoreBefore[i].endTime}
        IN  /\ (\E i \in meets :
                   /\ SharesFacility(StoreBefore[i], LastReq)
                   /\ StoreBefore[i].status \in
                          {"PENDING", "PENDING_ADMIN", "APPROVED",
                           "CHECKED_IN", "CHECKED_OUT"})
               => last.result = "CONFLICT"
            /\ (\A i \in meets :
                   \/ ~SharesFacility(StoreBefore[i], LastReq)
                   \/ StoreBefore[i].status \in
                          {"REJECTED", "CANCELLED", "EXPIRED"})
               => last.result # "CONFLICT"

\* C4 witness: the facility and window of a cancelled reservation were booked
\* again.
C4_Witness ==
    /\ Created
    /\ \E i \in Stored(StoreBefore) :
           /\ StoreBefore[i].status = "CANCELLED"
           /\ StoreBefore[i].facilities = LastReq.facilityIds
           /\ StoreBefore[i].startTime = LastReq.startTime
           /\ StoreBefore[i].endTime = LastReq.endTime

\* C5: a create request that names a facility with active = false or
\* maintenanceMode = true is refused as unavailable (404) and stores nothing,
\* also when that facility is already booked.
C5_UnavailableRefused ==
    (/\ last.op = "create"
     /\ WellFormed(LastReq)
     /\ \E f \in Range(LastReq.facilityIds) \cap Facilities :
            ~catalog[f].active \/ catalog[f].maintenanceMode)
    => last.result = "NOT_FOUND"

\* C6: a request that names a restricted facility is never stored as APPROVED.
C6_RestrictedNeverAuto ==
    (/\ Created
     /\ \E f \in Range(LastReq.facilityIds) \cap Facilities :
            catalog[f].isRestricted)
    => bookings[last.id].status # "APPROVED"

\* C6 witness: a request naming a restricted facility was stored.
C6_Witness ==
    /\ Created
    /\ \E f \in Range(LastReq.facilityIds) \cap Facilities :
           catalog[f].isRestricted
    /\ bookings[last.id].status = "PENDING_ADMIN"

\* C7: an external request is never stored as APPROVED; when it is accepted it
\* is stored as PENDING_ADMIN with isExternal = true.
C7_ExternalNeverAuto ==
    (Created /\ LastReq.isExternal)
    => /\ bookings[last.id].status = "PENDING_ADMIN"
       /\ bookings[last.id].isExternal

\* C7 witness: an external request for unrestricted facilities was stored.
C7_Witness ==
    /\ Created
    /\ LastReq.isExternal
    /\ \A f \in Range(LastReq.facilityIds) \cap Facilities :
           ~catalog[f].isRestricted
    /\ bookings[last.id].isExternal

\* C8: a stored request that is not external and names no restricted facility
\* is PENDING_ADMIN exactly when, for some type among its facilities, the
\* reserved active non-maintenance facilities of the type are at least as many
\* as the active non-maintenance facilities of the type; otherwise APPROVED.
C8_SaturationDecides ==
    (/\ Created
     /\ ~LastReq.isExternal
     /\ \A f \in Range(LastReq.facilityIds) \cap Facilities :
            ~catalog[f].isRestricted)
    => /\ bookings[last.id].status \in {"PENDING_ADMIN", "APPROVED"}
       /\ bookings[last.id].status = "PENDING_ADMIN" <=>
              \E type \in RequestedTypes(LastReq) :
                  Cardinality({g \in Pool(type) : Reserved(g, LastReq)})
                      >= Cardinality(Pool(type))

\* C9 as stated: when a request is auto-approved, every type among its
\* facilities has an active non-maintenance facility other than the requested
\* ones that is not reserved in the window.
C9_SpareElsewhere ==
    (Created /\ bookings[last.id].status = "APPROVED")
    => \A type \in RequestedTypes(LastReq) :
           \E g \in Pool(type) \ Range(LastReq.facilityIds) :
               ~Reserved(g, LastReq)

\* C9 amended: when a request is auto-approved, every type among its facilities
\* either has no active non-maintenance facility at all or has one, possibly a
\* requested one, that is not reserved in the window.
C9_SpareInPool ==
    (Created /\ bookings[last.id].status = "APPROVED")
    => \A type \in RequestedTypes(LastReq) :
           \/ Pool(type) = {}
           \/ \E g \in Pool(type) : ~Reserved(g, LastReq)

\* C9 witness: a request was auto-approved while another facility of the pool
\* of its type was reserved in the window.
C9_Witness ==
    /\ Created
    /\ bookings[last.id].status = "APPROVED"
    /\ \E type \in RequestedTypes(LastReq) :
           \E g \in Pool(type) : Reserved(g, LastReq)

\* C10: a request that is not external, for one unrestricted active facility
\* that is the only facility of its type, whose window meets no blocking
\* reservation on it, is stored as APPROVED with approval type AUTO.
C10_OnlyOfTypeAuto ==
    \A f \in Facilities :
        (/\ last.op = "create"
         /\ WellFormed(LastReq)
         /\ LastReq.facilityIds = <<f>>
         /\ ~LastReq.isExternal
         /\ ~catalog[f].isRestricted
         /\ catalog[f].active
         /\ \A g \in Facilities \ {f} : catalog[g].type # catalog[f].type
         /\ ~Reserved(f, LastReq))
        => /\ Created
           /\ bookings[last.id].status = "APPROVED"
           /\ bookings[last.id].approvalType = "AUTO"

\* C10 witness: such a request, starting when an APPROVED reservation on the
\* facility ends, was stored.
C10_Witness ==
    /\ Created
    /\ ~LastReq.isExternal
    /\ Len(LastReq.facilityIds) = 1
    /\ \A g \in Facilities \ Range(LastReq.facilityIds) :
           \A f \in Range(LastReq.facilityIds) :
               catalog[g].type # catalog[f].type
    /\ \E i \in Stored(StoreBefore) :
           /\ StoreBefore[i].status = "APPROVED"
           /\ StoreBefore[i].facilities = LastReq.facilityIds
           /\ StoreBefore[i].endTime = LastReq.startTime
    /\ bookings[last.id].status = "APPROVED"

\* C11: a create request that is refused (missing fields, unknown or inactive
\* facility, conflict) adds no reservation and changes no stored reservation,
\* status or audit log.
C11_RefusedCreateLeavesStore ==
    [][(/\ last'.op = "create"
        /\ last'.result \in {"BAD_REQUEST", "NOT_FOUND", "CONFLICT"})
       => /\ bookings' = bookings
          /\ nextBookingId' = nextBookingId]_vars

\* C11 witness: a request was refused for a conflict with a stored reservation.
C11_Witness ==
    /\ last.op = "create"
    /\ last.result = "CONFLICT"
    /\ \E i \in Stored(bookings) :
           /\ bookings[i].status = "CHECKED_IN"
           /\ Len(bookings[i].audit) = 2

\* C12: a reservation stored by a successful create request is either APPROVED
\* with approval type AUTO or PENDING_ADMIN with no approval type.
C12_CreationShapes ==
    Created =>
        \/ /\ bookings[last.id].status = "APPROVED"
           /\ bookings[last.id].approvalType = "AUTO"
        \/ /\ bookings[last.id].status = "PENDING_ADMIN"
           /\ bookings[last.id].approvalType = "NONE"

\* C12 witness: a request was stored as PENDING_ADMIN with no approval type.
C12_Witness ==
    /\ Created
    /\ bookings[last.id].status = "PENDING_ADMIN"
    /\ bookings[last.id].approvalType = "NONE"
    /\ bookings[last.id].audit = <<"BOOKING_CREATED">>

\* C18: every stored reservation has startTime < endTime; a create request whose
\* endTime is equal to or earlier than its startTime is refused and stores
\* nothing.
C18_StartBeforeEnd ==
    /\ \A i \in Stored(bookings) : bookings[i].startTime < bookings[i].endTime
    /\ (/\ last.op = "create"
        /\ WellFormed(LastReq)
        /\ LastReq.endTime <= LastReq.startTime)
       => ~Created

\* C19: a create request with an empty facility id list is refused before the
\* conflict and approval logic, so every stored reservation names a facility.
C19_NonEmptyFacilities ==
    /\ \A i \in Stored(bookings) : bookings[i].facilities # <<>>
    /\ (/\ last.op = "create"
        /\ WellFormed(LastReq)
        /\ LastReq.facilityIds = <<>>)
       => last.result = "BAD_REQUEST"

\* C21: while the setting autoApprovalEnabled is false, no create request
\* stores a reservation in status APPROVED.
C21_ManualWhenDisabled ==
    (Created /\ ~systemSettings.autoApprovalEnabled)
    => bookings[last.id].status # "APPROVED"

\* the length of a booking's window, in minutes
DurationMinutes(b) == (b.endTime - b.startTime) * SlotMinutes

\* C22: the duration of every stored reservation lies between
\* minBookingMinutes and maxBookingMinutes of each facility it reserves.
C22_DurationWithinBounds ==
    \A i \in Stored(bookings) :
        \A f \in Range(bookings[i].facilities) \cap Facilities :
            /\ catalog[f].minBookingMinutes <= DurationMinutes(bookings[i])
            /\ DurationMinutes(bookings[i]) <= catalog[f].maxBookingMinutes

\* the request names each of its facilities once
NoRepetition(req) == Cardinality(Range(req.facilityIds)) = Len(req.facilityIds)

C24_SoftDelete ==
    [][/\ (last'.op = "deleteFacility" /\ last'.result = "OK")
          => /\ \E f \in Facilities :
                    catalog' = [catalog EXCEPT ![f].active = FALSE]
             /\ bookings' = bookings
       /\ \A f \in Facilities :
              (~catalog[f].active /\ catalog'[f].active)
              => last'.op = "updateFacility"
       /\ (/\ last'.op = "create"
           /\ \E f \in Range(last'.req.facilityIds) \cap Facilities :
                  ~catalog[f].active)
          => /\ last'.result = "NOT_FOUND"
             /\ bookings' = bookings]_vars

\* C24 witness: a request naming a deleted facility was refused while a
\* reservation made before the deletion still references the facility.
C24_Witness ==
    /\ last.op = "create"
    /\ last.result = "NOT_FOUND"
    /\ \E f \in Range(LastReq.facilityIds) \cap Facilities :
           /\ ~catalog[f].active
           /\ \E i \in Stored(bookings) :
                  /\ f \in Range(bookings[i].facilities)
                  /\ bookings[i].status = "APPROVED"

\* ------------------------------------------------ claims on the store, serial
\* the half-open windows [startTime, endTime) of two bookings have an instant
\* in common
WindowsOverlap(a, b) ==
    \E t \in Times :
        /\ a.startTime <= t /\ t < a.endTime
        /\ b.startTime <= t /\ t < b.endTime

\* C1: after any sequence of booking operations run one at a time, two stored
\* reservations that share a facility and are both outside REJECTED, CANCELLED
\* and EXPIRED have windows that do not overlap.
C1_NoDoubleBooking ==
    \A i, j \in Stored(bookings) :
        (/\ i # j
         /\ Range(bookings[i].facilities) \cap Range(bookings[j].facilities) # {}
         /\ bookings[i].status \notin {"REJECTED", "CANCELLED", "EXPIRED"}
         /\ bookings[j].status \notin {"REJECTED", "CANCELLED", "EXPIRED"})
        => ~WindowsOverlap(bookings[i], bookings[j])

\* ------------------------------------------------ claims on the life cycle
TerminalStatuses == {"REJECTED", "CANCELLED", "EXPIRED", "CHECKED_OUT"}
PendingStatuses == {"PENDING", "PENDING_ADMIN"}
\* the booking is stored before and after the step
Kept(id) == bookings[id] # NoBooking /\ bookings'[id] # NoBooking
\* the audit log says the booking has been checked in or out
CheckedInOnce(b) ==
    \E k \in DOMAIN b.audit :
        b.audit[k] \in {"QR_CHECKIN", "QR_CHECKOUT",
                        "MANUAL_CHECK_IN", "MANUAL_CHECK_OUT"}

\* C13: once a reservation is REJECTED, CANCELLED, EXPIRED or CHECKED_OUT, no
\* approve, reject, cancel, scan or check-in request approval changes its
\* status again.
C13_TerminalStays ==
    [][\A id \in BookingIds :
          (Kept(id) /\ bookings[id].status \in TerminalStatuses)
          => bookings'[id].status = bookings[id].status]_vars

\* C14: admin approve succeeds only on a PENDING or PENDING_ADMIN reservation,
\* which becomes APPROVED with approval type MANUAL; on a reservation in any
\* other status it fails and status, approval and audit log stay as they were.
C14_ApproveGuard ==
    [][last'.op = "approve" =>
          IF last'.result = "OK"
          THEN /\ bookings[last'.id].status \in PendingStatuses
               /\ bookings'[last'.id].status = "APPROVED"
               /\ bookings'[last'.id].approvalType = "MANUAL"
               /\ \A id \in BookingIds \ {last'.id} :
                      bookings'[id] = bookings[id]
          ELSE bookings' = bookings]_vars

\* C14 witness: a PENDING reservation was approved by the admin.
C14_Witness ==
    /\ last.op = "approve"
    /\ last.result = "OK"
    /\ bookings[last.id].status = "APPROVED"
    /\ bookings[last.id].approvalType = "MANUAL"
    /\ bookings[last.id].audit = <<"BOOKING_CREATED", "BOOKING_APPROVED">>

\* C15: admin reject succeeds only on a PENDING or PENDING_ADMIN reservation; on
\* a reservation in any other status it fails and the status stays as it was.
C15_RejectGuard ==
    [][last'.op = "reject" =>
          /\ last'.result = "OK" =>
                 bookings[last'.id].status \in PendingStatuses
          /\ \A id \in BookingIds :
                 (Kept(id) /\ bookings[id].status \notin PendingStatuses)
                 => bookings'[id].status = bookings[id].status]_vars

\* C16: cancel on a CHECKED_IN or CHECKED_OUT reservation fails and leaves the
\* reservation as it was, and no reservation that has been checked in or out
\* is ever CANCELLED afterwards.
C16_NoCancelAfterCheckIn ==
    /\ [][last'.op = "cancel" =>
            \A id \in BookingIds :
                (Kept(id) /\ bookings[id].status \in {"CHECKED_IN", "CHECKED_OUT"})
                => bookings'[id] = bookings[id]]_vars
    /\ [](\A id \in Stored(bookings) :
              bookings[id].status = "CANCELLED" => ~CheckedInOnce(bookings[id]))

\* C17: a reservation becomes CHECKED_IN only from APPROVED and CHECKED_OUT
\* only from CHECKED_IN, by a scan as by the approval of a check-in request.
C17_CheckInOrder ==
    [][\A id \in BookingIds :
          Kept(id) =>
              /\ (/\ bookings'[id].status = "CHECKED_IN"
                  /\ bookings[id].status # "CHECKED_IN")
                 => bookings[id].status = "APPROVED"
              /\ (/\ bookings'[id].status = "CHECKED_OUT"
                  /\ bookings[id].status # "CHECKED_OUT")
                 => bookings[id].status = "CHECKED_IN"]_vars

\* the entry a successful step of the handler last'.op appends to the audit
\* log of the booking it acted on
AppendedEntry ==
    CASE last'.op = "approve" -> "BOOKING_APPROVED"
      [] last'.op = "reject" -> "BOOKING_REJECTED"
      [] last'.op = "cancel" -> "BOOKING_CANCELLED"
      [] last'.op = "scan" ->
             IF bookings[last'.id].status = "APPROVED"
             THEN "QR_CHECKIN" ELSE "QR_CHECKOUT"
      [] last'.op = "approveRequest" ->
             IF \E r \in DOMAIN checkInRequests :
                    /\ checkInRequests[r].status = "PENDING"
                    /\ checkInRequests'[r].status = "APPROVED"
                    /\ checkInRequests[r].type = "CHECK_IN"
             THEN "MANUAL_CHECK_IN" ELSE "MANUAL_CHECK_OUT"
      [] OTHER -> "NONE"

ScanInstant ==
    IF bookings[last'.id].status = "APPROVED"
    THEN bookings'[last'.id].checkInAt
    ELSE bookings'[last'.id].checkOutAt

\* C25: a scan changes a reservation only when the current time lies within
\* [startTime - 30 min, endTime + 30 min]; a scan outside the window fails and
\* leaves status, checkInAt, checkOutAt and audit log as they were, for
\* check-in and for check-out.
C25_ScanWindow ==
    [][last'.op = "scan" =>
          IF last'.result = "OK"
          THEN /\ bookings[last'.id].startTime - CheckInWindow <= ScanInstant
               /\ ScanInstant <= bookings[last'.id].endTime + CheckInWindow
          ELSE bookings' = bookings]_vars

\* C25 witness: a reservation was checked out by a scan exactly 30 minutes
\* after its end.
C25_Witness ==
    /\ last.op = "scan"
    /\ last.result = "OK"
    /\ bookings[last.id].status = "CHECKED_OUT"
    /\ bookings[last.id].checkOutAt = bookings[last.id].endTime + CheckInWindow

\* C28: no operation puts a reservation into EXPIRED or PENDING: every stored
\* reservation is PENDING_ADMIN, APPROVED, REJECTED, CANCELLED, CHECKED_IN or
\* CHECKED_OUT.
C28_NoExpiredNoPending ==
    \A i \in Stored(bookings) :
        bookings[i].status \in {"PENDING_ADMIN", "APPROVED", "REJECTED",
                                "CANCELLED", "CHECKED_IN", "CHECKED_OUT"}

\* C28 witness: one reservation went all the way to CHECKED_OUT while another,
\* created PENDING_ADMIN and approved by the admin, is still APPROVED.
C28_Witness ==
    \E i, j \in Stored(bookings) :
        /\ bookings[i].status = "CHECKED_OUT"
        /\ bookings[j].status = "APPROVED"
        /\ bookings[j].audit = <<"BOOKING_CREATED", "BOOKING_APPROVED">>

C27_CancelWins ==
    (/\ \A p \in Procs : procs[p].pc = "done"
     /\ procs["p2"].result = "OK")
    => bookings[procs["p2"].id].status = "CANCELLED"

\* C29 (first half): at any time there is at most one check-in request in
\* status PENDING for a given booking and type, also while two create-request
\* calls for the same booking and type are in flight.
C29_OnePendingPerAction ==
    \A id \in BookingIds, type \in RequestTypes :
        Cardinality(PendingRequests(checkInRequests, id, type)) <= 1

\* C29 (second half): a check-in request that has left PENDING never changes
\* again, and an approve or reject that is refused leaves the requests and the
\* bookings as they were.
C29_LeavesPendingOnce ==
    [][/\ \A r \in DOMAIN checkInRequests :
              checkInRequests[r].status # "PENDING"
              => checkInRequests'[r] = checkInRequests[r]
       /\ (/\ last'.op \in {"approveRequest", "rejectRequest"}
           /\ last'.result # "OK")
          => UNCHANGED <<checkInRequests, bookings>>]_vars

\* a request has left PENDING and an approve or reject of it was refused
C29_RefusedAfterProcessed ==
    /\ last.op \in {"approveRequest", "rejectRequest"}
    /\ last.result = "BAD_REQUEST"
    /\ \E r \in DOMAIN checkInRequests : checkInRequests[r].status # "PENDING"

\* C2: when two create requests for the same single facility with overlapping
\* windows are processed concurrently, exactly one of them stores a
\* reservation and the other is refused with the conflict error, and the store
\* never holds two overlapping blocking reservations on the facility.
C2_ExactlyOneWins ==
    /\ C1_NoDoubleBooking
    /\ (/\ \A p \in Procs : procs[p].pc = "done"
        /\ procs["p1"].req.facilityIds = procs["p2"].req.facilityIds
        /\ WindowsOverlap(procs["p1"].req, procs["p2"].req))
       => \E p, q \in Procs :
              /\ p # q
              /\ procs[p].result = "CREATED"
              /\ bookings[procs[p].id].status \in {"APPROVED", "PENDING_ADMIN"}
              /\ procs[q].result = "CONFLICT"
====
